---- MODULE Spec2Model ----
(***************************************************************************)
(* Model of tantivy's postings writer (src/postings/postings_writer.rs):   *)
(* the per-field SpecializedPostingsWriter (subscribe, index_text,         *)
(* serialize, serialize_one_term) and the driver serialize_postings.       *)
(* The Recorder, the TermHashMap and the serializer are collaborators      *)
(* whose code lives in other files; they are modelled from their           *)
(* description in the specification (sections 4.2, 4.3 and 6).             *)
(***************************************************************************)
EXTENDS Integers, Sequences, FiniteSets, TLC

VARIABLES
    schema,             \* Schema: sequence of field entries
    writers,            \* PerFieldPostingsWriter: field -> [total_num_tokens, term_map]
    cur_doc,            \* the document the segment writer is currently indexing
    indexing_position,  \* field -> IndexingPosition of the current document
    term_buffer,        \* field -> value bytes of the caller's term buffer
    fast_field,         \* field -> values appended to the MultiValuedFastFieldWriter
    phase,              \* "ingest" until serialize_postings has run, then "flushed"
    sink_log,           \* the fallible operations serialize_postings performed on
                        \* the fieldnorm readers and the serializer, in order
    result,             \* what serialize_postings returned
    history,            \* history: field -> what subscribe was called with
    last_call           \* history: what the last index_text call did

vars == <<schema, writers, cur_doc, indexing_position, term_buffer, fast_field,
          phase, sink_log, result, history, last_call>>

----------------------------------------------------------------------------
(* Bounds of the model *)

\* the documents of the segment are 0..MaxDoc
MaxDoc == 1
\* subscribe calls over the whole build, all fields together
MaxSubscribes == 3
\* tokens in one token stream
MaxTokens == 2

(* Program constants *)

POSITION_GAP == 1
\* tokenizer::MAX_TOKEN_LEN, scaled down to the token texts of the model
MAX_TOKEN_LEN == 2

----------------------------------------------------------------------------
(* Inputs *)

FieldTypes == {"Str", "Facet", "U64", "I64", "F64", "Date", "Bytes", "JsonObject"}
RecorderVariants == {"DocOnly", "DocFrequency", "DocFrequencyAndPosition"}

\* a field of the schema: its type, the Recorder variant its postings writer
\* is bound to, and whether it has a multi-valued fast field of term ids
FieldEntry(t, r, fast) == [field_type |-> t, recorder |-> r, fast |-> fast]

\* the schemas the model is run on: every field type and every recorder
\* variant occurs in one of them
Schemas ==
    { <<FieldEntry("Str", "DocFrequencyAndPosition", TRUE),
        FieldEntry("U64", "DocOnly", FALSE)>>,
      <<FieldEntry("Facet", "DocOnly", TRUE),
        FieldEntry("Str", "DocFrequency", FALSE)>>,
      <<FieldEntry("JsonObject", "DocFrequencyAndPosition", FALSE),
        FieldEntry("Bytes", "DocOnly", FALSE)>>,
      <<FieldEntry("Date", "DocOnly", FALSE),
        FieldEntry("Facet", "DocFrequency", TRUE)>>,
      <<FieldEntry("I64", "DocOnly", FALSE),
        FieldEntry("F64", "DocOnly", FALSE)>> }

\* the field types whose values go through a tokenizer and index_text; the
\* values of the other types (and the numbers of a json object) are
\* subscribed directly
Tokenized == {"Str", "JsonObject"}
Direct == FieldTypes \ {"Str"}

Fields == 1..2

\* the values a direct subscribe call indexes
TokenTexts == { <<1>>, <<2>>, <<1, 2>> }

Tok(text, position, position_length) ==
    [text |-> text, position |-> position, position_length |-> position_length]

\* the tokens of the model: text bytes, start offset in the stream and span
\* length; <<1, 1, 1>> is longer than MAX_TOKEN_LEN, <<1, 2>> is as long
Token == { Tok(<<2>>, 0, 1), Tok(<<1, 2>>, 0, 2), Tok(<<1>>, 1, 1),
           Tok(<<1, 1, 1>>, 1, 1) }

\* a TokenStream yields its tokens in text order: offsets do not decrease
TokenStreams ==
    { s \in UNION { [1..n -> Token] : n \in 0..MaxTokens } :
        \A i \in 1..(Len(s) - 1) : s[i].position <= s[i + 1].position }

\* the value bytes already in the term buffer of a field: the json path of a
\* JsonObject field, nothing for the other types
PathPrefix(field_type) == IF field_type = "JsonObject" THEN <<3>> ELSE <<>>

NoDoc == -1

\* Option<T>: None, or Some(x)
None == <<>>
Some(x) == <<x>>
unwrap_or(opt, default) == IF opt = None THEN default ELSE opt[1]

Min(a, b) == IF a <= b THEN a ELSE b

----------------------------------------------------------------------------
(* Recorder: the per-term accumulation state machine                       *)
(* Unopened -> Open(doc) -> Closed -> Open(doc') -> ...                     *)
(* opened and misuse are history fields: the documents new_doc was called  *)
(* with, and whether an operation was called in a state it is not valid in *)

RecorderDefault ==
    [state |-> "Unopened", doc |-> NoDoc, finalized |-> <<>>,
     freq |-> 0, positions |-> <<>>, opened |-> <<>>, misuse |-> FALSE]

\* the Open document, none when Unopened or Closed
current_doc(r) == IF r.state = "Open" THEN r.doc ELSE NoDoc

new_doc(r, doc) ==
    [r EXCEPT !.state = "Open", !.doc = doc, !.freq = 0, !.positions = <<>>,
              !.opened = Append(@, doc),
              !.misuse = @ \/ r.state = "Open"]

record_position(variant, r, position) ==
    [r EXCEPT !.positions = IF variant = "DocFrequencyAndPosition"
                            THEN Append(@, position) ELSE @,
              !.freq = IF variant = "DocFrequency" THEN @ + 1 ELSE @,
              !.misuse = @ \/ r.state # "Open"]

\* the finalized entry (doc_id [, frequency] [, position list])
FinalizedEntry(variant, r) ==
    CASE variant = "DocOnly" -> <<r.doc>>
      [] variant = "DocFrequency" -> <<r.doc, r.freq>>
      [] OTHER -> <<r.doc, Len(r.positions), r.positions>>

close_doc(variant, r) ==
    [r EXCEPT !.state = "Closed",
              !.finalized = Append(@, FinalizedEntry(variant, r)),
              !.misuse = @ \/ r.state # "Open"]

\* count of finalized entries so far
term_doc_freq(r) == Some(Len(r.finalized))

----------------------------------------------------------------------------
(* TermHashMap: the buckets in insertion order; the bucket at index i has  *)
(* UnorderedTermId i - 1 and Addr i                                        *)

KeyIndex(term_map, key) ==
    IF \E i \in 1..Len(term_map) : term_map[i].key = key
    THEN CHOOSE i \in 1..Len(term_map) : term_map[i].key = key
    ELSE 0

\* the new document is opened without closing the one that is open
subscribe_update_without_close(opt_recorder, variant, doc, position) ==
    IF opt_recorder # None
    THEN LET recorder == opt_recorder[1]
             moved == IF current_doc(recorder) # doc
                      THEN new_doc(recorder, doc)
                      ELSE recorder
         IN record_position(variant, moved, position)
    ELSE record_position(variant, new_doc(RecorderDefault, doc), position)

\* the open document is closed and opened again on every call
subscribe_update_reopening(opt_recorder, variant, doc, position) ==
    IF opt_recorder # None
    THEN record_position(variant,
                         new_doc(close_doc(variant, opt_recorder[1]), doc),
                         position)
    ELSE record_position(variant, new_doc(RecorderDefault, doc), position)

\* the closure subscribe hands to mutate_or_create, with what it captures
subscribe_update(opt_recorder, variant, doc, position) ==
    IF opt_recorder # None
    THEN LET recorder == opt_recorder[1]
             moved == IF current_doc(recorder) # doc
                      THEN new_doc(close_doc(variant, recorder), doc)
                      ELSE recorder
         IN record_position(variant, moved, position)
    ELSE record_position(variant, new_doc(RecorderDefault, doc), position)

\* a new bucket gets the number of buckets after the insertion as its id
mutate_or_create_counting_from_one(term_map, key, variant, doc, position) ==
    LET i == KeyIndex(term_map, key) IN
    IF i # 0
    THEN [term_map |-> [term_map EXCEPT ![i].recorder =
                            subscribe_update(Some(@), variant, doc, position)],
          id |-> i - 1]
    ELSE [term_map |-> Append(term_map,
                            [key |-> key,
                             recorder |-> subscribe_update(None, variant, doc, position)]),
          id |-> Len(term_map) + 1]

\* mutate_or_create(key, arena, updater), the updater being subscribe_update
\* with variant, doc and position captured: the map after the call and the
\* UnorderedTermId of the bucket
mutate_or_create(term_map, key, variant, doc, position) ==
    LET i == KeyIndex(term_map, key) IN
    IF i # 0
    THEN [term_map |-> [term_map EXCEPT ![i].recorder =
                            subscribe_update(Some(@), variant, doc, position)],
          id |-> i - 1]
    ELSE [term_map |-> Append(term_map,
                            [key |-> key,
                             recorder |-> subscribe_update(None, variant, doc, position)]),
          id |-> Len(term_map)]

----------------------------------------------------------------------------
(* SpecializedPostingsWriter<Rec> *)

WriterDefault == [total_num_tokens |-> 0, term_map |-> <<>>]

\* the token is counted only when its term is new to the map
subscribe_counting_terms(w, variant, doc, position, key) ==
    LET r == mutate_or_create(w.term_map, key, variant, doc, position)
    IN [writer |-> [total_num_tokens |-> Len(r.term_map), term_map |-> r.term_map],
        id |-> r.id]

\* subscribe: the writer after the call and the UnorderedTermId returned
subscribe(w, variant, doc, position, key) ==
    LET r == mutate_or_create(w.term_map, key, variant, doc, position)
    IN [writer |-> [total_num_tokens |-> w.total_num_tokens + 1,
                    term_map |-> r.term_map],
        id |-> r.id]

\* Term::truncate and Term::append_bytes on the value bytes of the buffer
truncate(buffer, len) == SubSeq(buffer, 1, Min(len, Len(buffer)))
append_bytes(buffer, bytes) == buffer \o bytes

\* a token as long as MAX_TOKEN_LEN is kept, a longer one is skipped
too_long_or_as_long(token) == Len(token.text) >= MAX_TOKEN_LEN

\* token.text.len() > MAX_TOKEN_LEN
too_long(token) == Len(token.text) > MAX_TOKEN_LEN

\* the start position of a token is its offset in the stream, whatever the
\* values indexed before it
process_token_from_zero(st, token, variant, doc_id, end_of_path_idx, indexing_end_position) ==
    IF too_long(token)
    THEN [st EXCEPT !.dropped = Append(@, token)]
    ELSE LET buffer == append_bytes(truncate(st.term_buffer, end_of_path_idx), token.text)
             start_position == token.position
             sub == subscribe(st.writer, variant, doc_id, start_position, buffer)
         IN [st EXCEPT
                !.term_buffer = buffer,
                !.end_position = start_position + token.position_length,
                !.writer = sub.writer,
                !.fast_field = IF @ # None THEN Some(Append(@[1], sub.id)) ELSE @,
                !.num_tokens = @ + 1,
                !.calls = Append(@, [doc |-> doc_id, position |-> start_position,
                                     key |-> buffer, id |-> sub.id,
                                     via |-> "index_text"])]

\* the id goes to the fast field writer only when the term is new to the map
process_token_sinking_new_terms(st, token, variant, doc_id, end_of_path_idx, indexing_end_position) ==
    IF too_long(token)
    THEN [st EXCEPT !.dropped = Append(@, token)]
    ELSE LET buffer == append_bytes(truncate(st.term_buffer, end_of_path_idx), token.text)
             start_position == indexing_end_position + token.position
             sub == subscribe(st.writer, variant, doc_id, start_position, buffer)
             is_new == Len(sub.writer.term_map) > Len(st.writer.term_map)
         IN [st EXCEPT
                !.term_buffer = buffer,
                !.end_position = start_position + token.position_length,
                !.writer = sub.writer,
                !.fast_field = IF @ # None /\ is_new
                               THEN Some(Append(@[1], sub.id)) ELSE @,
                !.num_tokens = @ + 1,
                !.calls = Append(@, [doc |-> doc_id, position |-> start_position,
                                     key |-> buffer, id |-> sub.id,
                                     via |-> "index_text"])]

\* the closure index_text hands to token_stream.process, applied to one
\* token. st holds what the closure captures: the writer, the term buffer,
\* num_tokens, end_position, the fast field writer (an Option), and as
\* history the subscribe calls made and the tokens dropped.
process_token(st, token, variant, doc_id, end_of_path_idx, indexing_end_position) ==
    IF too_long(token)
    THEN [st EXCEPT !.dropped = Append(@, token)]
    ELSE LET buffer == append_bytes(truncate(st.term_buffer, end_of_path_idx), token.text)
             start_position == indexing_end_position + token.position
             sub == subscribe(st.writer, variant, doc_id, start_position, buffer)
         IN [st EXCEPT
                !.term_buffer = buffer,
                !.end_position = start_position + token.position_length,
                !.writer = sub.writer,
                !.fast_field = IF @ # None THEN Some(Append(@[1], sub.id)) ELSE @,
                !.num_tokens = @ + 1,
                !.calls = Append(@, [doc |-> doc_id, position |-> start_position,
                                     key |-> buffer, id |-> sub.id,
                                     via |-> "index_text"])]

\* the first token that is too long ends the processing of the stream
RECURSIVE process_until_too_long(_, _, _, _, _, _, _)
process_until_too_long(token_stream, i, st, variant, doc_id, end_of_path_idx, indexing_end_position) ==
    IF i > Len(token_stream)
    THEN st
    ELSE IF too_long(token_stream[i])
         THEN [st EXCEPT !.dropped = Append(@, token_stream[i])]
         ELSE process_until_too_long(token_stream, i + 1,
                 process_token(st, token_stream[i], variant, doc_id,
                               end_of_path_idx, indexing_end_position),
                 variant, doc_id, end_of_path_idx, indexing_end_position)

\* token_stream.process(sink): the closure is applied to every token of the
\* stream, in order
RECURSIVE process(_, _, _, _, _, _, _)
process(token_stream, i, st, variant, doc_id, end_of_path_idx, indexing_end_position) ==
    IF i > Len(token_stream)
    THEN st
    ELSE process(token_stream, i + 1,
                 process_token(st, token_stream[i], variant, doc_id,
                               end_of_path_idx, indexing_end_position),
                 variant, doc_id, end_of_path_idx, indexing_end_position)

\* the next value continues right at the end of the last token
without_position_gap(end_position) == end_position

\* end_position + POSITION_GAP
with_position_gap(end_position) == end_position + POSITION_GAP

\* num_tokens of the IndexingPosition is set to the tokens of this call
index_text_setting_num_tokens(w, variant, doc_id, token_stream, buffer, position, fast_field_opt) ==
    LET end_of_path_idx == Len(buffer)
        st0 == [writer |-> w, term_buffer |-> buffer, num_tokens |-> 0,
                end_position |-> 0, fast_field |-> fast_field_opt,
                calls |-> <<>>, dropped |-> <<>>]
        st == process(token_stream, 1, st0, variant, doc_id, end_of_path_idx,
                      position.end_position)
    IN [writer |-> st.writer,
        term_buffer |-> truncate(st.term_buffer, end_of_path_idx),
        indexing_position |-> [end_position |-> with_position_gap(st.end_position),
                               num_tokens |-> st.num_tokens],
        fast_field |-> st.fast_field,
        end_position |-> st.end_position,
        calls |-> st.calls,
        dropped |-> st.dropped]

\* the term buffer is left with the key of the last recorded token
index_text_without_final_truncate(w, variant, doc_id, token_stream, buffer, position, fast_field_opt) ==
    LET end_of_path_idx == Len(buffer)
        st0 == [writer |-> w, term_buffer |-> buffer, num_tokens |-> 0,
                end_position |-> 0, fast_field |-> fast_field_opt,
                calls |-> <<>>, dropped |-> <<>>]
        st == process(token_stream, 1, st0, variant, doc_id, end_of_path_idx,
                      position.end_position)
    IN [writer |-> st.writer,
        term_buffer |-> st.term_buffer,
        indexing_position |-> [end_position |-> with_position_gap(st.end_position),
                               num_tokens |-> position.num_tokens + st.num_tokens],
        fast_field |-> st.fast_field,
        end_position |-> st.end_position,
        calls |-> st.calls,
        dropped |-> st.dropped]

\* PostingsWriter::index_text: the writer, the term buffer, the indexing
\* position and the fast field writer after the call
index_text(w, variant, doc_id, token_stream, buffer, position, fast_field_opt) ==
    LET end_of_path_idx == Len(buffer)
        st0 == [writer |-> w, term_buffer |-> buffer, num_tokens |-> 0,
                end_position |-> 0, fast_field |-> fast_field_opt,
                calls |-> <<>>, dropped |-> <<>>]
        st == process(token_stream, 1, st0, variant, doc_id, end_of_path_idx,
                      position.end_position)
    IN [writer |-> st.writer,
        term_buffer |-> truncate(st.term_buffer, end_of_path_idx),
        indexing_position |-> [end_position |-> with_position_gap(st.end_position),
                               num_tokens |-> position.num_tokens + st.num_tokens],
        fast_field |-> st.fast_field,
        end_position |-> st.end_position,
        calls |-> st.calls,
        dropped |-> st.dropped]

----------------------------------------------------------------------------
(* Serialization *)

\* byte-lexicographic order on term keys
LexLess(a, b) ==
    \E i \in 1..(Min(Len(a), Len(b)) + 1) :
        /\ \A j \in 1..(i - 1) : a[j] = b[j]
        /\ \/ i > Len(a) /\ i <= Len(b)
           \/ i <= Len(a) /\ i <= Len(b) /\ a[i] < b[i]

\* term_map().iter(): the (key, Addr, UnorderedTermId) triples of the map, in
\* the order given by the permutation order (the order is up to the map)
iter(term_map, order) ==
    [i \in 1..Len(term_map) |->
        [key |-> term_map[order[i]].key, addr |-> order[i], id |-> order[i] - 1]]

RECURSIVE insert_by_key(_, _, _)
insert_by_key(sorted, x, i) ==
    IF i > Len(sorted) \/ LexLess(x.key, sorted[i].key)
    THEN SubSeq(sorted, 1, i - 1) \o <<x>> \o SubSeq(sorted, i, Len(sorted))
    ELSE insert_by_key(sorted, x, i + 1)

RECURSIVE sort_loop(_, _, _)
sort_loop(sorted, seq, i) ==
    IF i > Len(seq) THEN sorted
    ELSE sort_loop(insert_by_key(sorted, seq[i], 1), seq, i + 1)

\* the triples are left in the order the map iterates
sort_skipped(term_offsets) == term_offsets

\* term_offsets.sort_unstable_by_key(|(k, _, _)| k.clone())
sort_unstable_by_key(term_offsets) == sort_loop(<<>>, term_offsets, 1)

\* the pairs the wrong way round: (ordered term ord) -> (unordered term ord)
mapping_swapped(term_offsets) ==
    [term_ord \in 0..(Len(term_offsets) - 1) |-> term_offsets[term_ord + 1].id]

\* the (unordered term ord) -> (ordered term ord) mapping of a field
mapping(term_offsets) ==
    [id \in { term_offsets[i].id : i \in 1..Len(term_offsets) } |->
        (CHOOSE i \in 1..Len(term_offsets) : term_offsets[i].id = id) - 1]

\* One operation on the fieldnorm readers or the serializer. The operation
\* numbered fail_at fails, the others succeed.
SinkOp(op, field, term, value, postings) ==
    [op |-> op, field |-> field, term |-> term, value |-> value,
     postings |-> postings, ok |-> TRUE]

\* an operation whose result is propagated with `?`
try(st, op) ==
    LET ok == Len(st.log) + 1 # st.fail_at
    IN [st EXCEPT !.log = Append(@, [op EXCEPT !.ok = ok]), !.err = ~ok]

\* an operation whose outcome the caller does not look at
discard(st, op) ==
    LET ok == Len(st.log) + 1 # st.fail_at
    IN [st EXCEPT !.log = Append(@, [op EXCEPT !.ok = ok])]

\* Recorder::serialize: the finalized entries of the term, the doc id of each
\* mapped through doc_id_map when there is one
recorder_serialize(recorder, doc_id_map) ==
    [i \in 1..Len(recorder.finalized) |->
        IF doc_id_map = None THEN recorder.finalized[i]
        ELSE [recorder.finalized[i] EXCEPT ![1] = doc_id_map[1][@]]]

\* the result of close_term is dropped
serialize_one_term_unchecked_close(st, field, term, addr, doc_id_map, term_index) ==
    LET recorder == term_index[addr].recorder
        doc_freq == unwrap_or(term_doc_freq(recorder), 0)
        s1 == try(st, SinkOp("new_term", field, term, doc_freq, <<>>))
    IN IF s1.err THEN s1
       ELSE LET s2 == discard(s1, SinkOp("write_postings", field, term, 0,
                                         recorder_serialize(recorder, doc_id_map)))
            IN discard(s2, SinkOp("close_term", field, term, 0, <<>>))

\* serialize_one_term: new_term, the recorder's postings, close_term
serialize_one_term(st, field, term, addr, doc_id_map, term_index) ==
    LET recorder == term_index[addr].recorder
        doc_freq == unwrap_or(term_doc_freq(recorder), 0)
        s1 == try(st, SinkOp("new_term", field, term, doc_freq, <<>>))
    IN IF s1.err THEN s1
       ELSE LET s2 == discard(s1, SinkOp("write_postings", field, term, 0,
                                      recorder_serialize(recorder, doc_id_map)))
            IN try(s2, SinkOp("close_term", field, term, 0, <<>>))

RECURSIVE serialize_loop(_, _, _, _, _, _)
serialize_loop(st, field, term_addrs, i, doc_id_map, term_index) ==
    IF i > Len(term_addrs) THEN st
    ELSE LET s1 == serialize_one_term(st, field, term_addrs[i].key,
                                      term_addrs[i].addr, doc_id_map, term_index)
         IN IF s1.err THEN s1
            ELSE serialize_loop(s1, field, term_addrs, i + 1, doc_id_map, term_index)

\* SpecializedPostingsWriter::serialize
serialize(st, field, w, term_addrs, doc_id_map) ==
    serialize_loop(st, field, term_addrs, 1, doc_id_map, w.term_map)

\* only a text field gets a mapping
has_term_ordinals_str_only(field_type) == field_type = "Str"

\* the arms of the match on the field type: FieldType::Str and
\* FieldType::Facet get an (unordered term ord) -> (ordered term ord) mapping
has_term_ordinals(field_type) == field_type \in {"Str", "Facet"}

\* a field without terms is passed over: no sink is opened for it
serialize_field_skipping_empty(st, field, field_entry, w, order, doc_id_map) ==
    LET term_offsets == sort_unstable_by_key(iter(w.term_map, order))
        s0 == IF has_term_ordinals(field_entry.field_type)
              THEN [st EXCEPT !.mappings = (field :> mapping(term_offsets)) @@ @]
              ELSE st
    IN IF Len(term_offsets) = 0 THEN s0
       ELSE LET s1 == try(s0, SinkOp("get_field", field, <<>>, 0, <<>>))
            IN IF s1.err THEN s1
               ELSE LET s2 == try(s1, SinkOp("new_field", field, <<>>,
                                             w.total_num_tokens, <<>>))
                    IN IF s2.err THEN s2
                       ELSE LET s3 == serialize(s2, field, w, term_offsets, doc_id_map)
                            IN IF s3.err THEN s3
                               ELSE try(s3, SinkOp("close", field, <<>>, 0, <<>>))

\* the body of the loop of serialize_postings for one field; st.mappings is
\* unordered_term_mappings
serialize_field(st, field, field_entry, w, order, doc_id_map) ==
    LET term_offsets == sort_unstable_by_key(iter(w.term_map, order))
        s0 == IF has_term_ordinals(field_entry.field_type)
              THEN [st EXCEPT !.mappings = (field :> mapping(term_offsets)) @@ @]
              ELSE st
        s1 == try(s0, SinkOp("get_field", field, <<>>, 0, <<>>))
    IN IF s1.err THEN s1
       ELSE LET s2 == try(s1, SinkOp("new_field", field, <<>>, w.total_num_tokens, <<>>))
            IN IF s2.err THEN s2
               ELSE LET s3 == serialize(s2, field, w, term_offsets, doc_id_map)
                    IN IF s3.err THEN s3
                       ELSE try(s3, SinkOp("close", field, <<>>, 0, <<>>))

RECURSIVE fields_loop(_, _, _, _, _, _)
fields_loop(st, field, sch, ws, orders, doc_id_map) ==
    IF field > Len(sch) THEN st
    ELSE LET s1 == serialize_field(st, field, sch[field], ws[field], orders[field],
                                   doc_id_map)
         IN IF s1.err THEN s1
            ELSE fields_loop(s1, field + 1, sch, ws, orders, doc_id_map)

\* serialize_postings: the operations performed and the Result returned
serialize_postings(ws, doc_id_map, sch, orders, fail_at) ==
    LET st == fields_loop([log |-> <<>>, fail_at |-> fail_at, err |-> FALSE,
                           mappings |-> <<>>],
                          1, sch, ws, orders, doc_id_map)
    IN [log |-> st.log,
        result |-> IF st.err THEN [status |-> "err"]
                   ELSE [status |-> "ok", unordered_term_mappings |-> st.mappings]]

----------------------------------------------------------------------------
(* The state after construction *)

IndexingPositionDefault == [num_tokens |-> 0, end_position |-> 0]

NoCall == [kind |-> "none"]
NoResult == [status |-> "none"]

\* history of one field: the number of subscribe calls, the (key, doc) and
\* (key, id returned) pairs of the calls, the keys in first-seen order, and
\* the start positions index_text recorded for the current document, and the
\* value of end_position at the end of the last index_text call for the
\* current document (None before the first call); the number of subscribe
\* calls that did not come from index_text, the sum of the increments
\* index_text made to indexing_position.num_tokens, and the term of every
\* call whose id was appended to the fast field writer, in order
HistoryDefault ==
    [count |-> 0, docs |-> {}, ids |-> {}, first_seen |-> <<>>, positions |-> {},
     prev_end |-> None, direct |-> 0, added |-> 0, sunk |-> <<>>]

Record(h, call) ==
    [count |-> h.count + 1,
     docs |-> h.docs \cup {<<call.key, call.doc>>},
     ids |-> h.ids \cup {<<call.key, call.id>>},
     first_seen |-> IF \E i \in 1..Len(h.first_seen) : h.first_seen[i] = call.key
                    THEN h.first_seen ELSE Append(h.first_seen, call.key),
     positions |-> IF call.via = "index_text"
                   THEN h.positions \cup {call.position} ELSE h.positions,
     prev_end |-> h.prev_end,
     direct |-> IF call.via = "subscribe" THEN h.direct + 1 ELSE h.direct,
     added |-> h.added,
     sunk |-> h.sunk]

RECURSIVE RecordAll(_, _, _)
RecordAll(h, calls, i) ==
    IF i > Len(calls) THEN h ELSE RecordAll(Record(h, calls[i]), calls, i + 1)

InitWith(schemas) ==
    /\ schema \in schemas
    /\ writers = [f \in Fields |-> WriterDefault]
    /\ cur_doc = 0
    /\ indexing_position = [f \in Fields |-> IndexingPositionDefault]
    /\ term_buffer = [f \in Fields |-> PathPrefix(schema[f].field_type)]
    /\ fast_field = [f \in Fields |-> <<>>]
    /\ phase = "ingest"
    /\ sink_log = <<>>
    /\ result = NoResult
    /\ history = [f \in Fields |-> HistoryDefault]
    /\ last_call = NoCall

\* the subscribe calls made so far
NumSubscribes == history[1].count + history[2].count

\* The segment writer indexes one value of field f of the current document
\* by a direct subscribe call (numeric, date, bytes and facet values): the
\* term buffer is set to the value, the term is subscribed at position 0,
\* and the id goes to the fast field writer of the field if it has one.
Subscribe(f, text) ==
    /\ phase = "ingest"
    /\ schema[f].field_type \in Direct
    /\ NumSubscribes < MaxSubscribes
    /\ LET key == append_bytes(truncate(term_buffer[f], Len(PathPrefix(schema[f].field_type))), text)
           sub == subscribe(writers[f], schema[f].recorder, cur_doc, 0, key)
       IN /\ writers' = [writers EXCEPT ![f] = sub.writer]
          /\ history' = [history EXCEPT ![f] =
                [Record(@, [doc |-> cur_doc, position |-> 0, key |-> key,
                            id |-> sub.id, via |-> "subscribe"])
                    EXCEPT !.sunk = IF schema[f].fast THEN Append(@, key) ELSE @]]
          /\ fast_field' = [fast_field EXCEPT ![f] =
                IF schema[f].fast THEN Append(@, sub.id) ELSE @]
    /\ last_call' = NoCall
    /\ UNCHANGED <<schema, cur_doc, indexing_position, term_buffer, phase,
                   sink_log, result>>

\* The segment writer indexes one text value of field f of the current
\* document: one index_text call on the field's IndexingPosition, with the
\* fast field writer of the field if it has one.
IndexText(f, token_stream) ==
    /\ phase = "ingest"
    /\ schema[f].field_type \in Tokenized
    /\ LET with_fast_field == schema[f].fast
           r == index_text(writers[f], schema[f].recorder, cur_doc, token_stream,
                           term_buffer[f], indexing_position[f],
                           IF with_fast_field THEN Some(fast_field[f]) ELSE None)
       IN /\ NumSubscribes + Len(r.calls) <= MaxSubscribes
          /\ writers' = [writers EXCEPT ![f] = r.writer]
          /\ term_buffer' = [term_buffer EXCEPT ![f] = r.term_buffer]
          /\ indexing_position' = [indexing_position EXCEPT ![f] = r.indexing_position]
          /\ fast_field' = [fast_field EXCEPT ![f] =
                IF with_fast_field THEN r.fast_field[1] ELSE @]
          /\ history' = [history EXCEPT ![f] =
                [RecordAll(@, r.calls, 1) EXCEPT
                    !.prev_end = Some(r.end_position),
                    !.added = @ + (r.indexing_position.num_tokens
                                      - indexing_position[f].num_tokens),
                    !.sunk = IF with_fast_field
                             THEN @ \o [i \in 1..Len(r.calls) |-> r.calls[i].key]
                             ELSE @]]
          /\ last_call' = [kind |-> "index_text", field |-> f, doc |-> cur_doc,
                           token_stream |-> token_stream,
                           entry |-> indexing_position[f],
                           total_before |-> writers[f].total_num_tokens,
                           term_map_before |-> writers[f].term_map,
                           buffer_before |-> term_buffer[f],
                           fast_field_before |-> fast_field[f],
                           earlier_positions |-> history[f].positions,
                           prev_end |-> history[f].prev_end,
                           calls |-> r.calls,
                           dropped |-> r.dropped]
    /\ UNCHANGED <<schema, cur_doc, phase, sink_log, result>>

\* The segment writer moves on to the next document: doc ids do not
\* decrease, and every field starts from a fresh IndexingPosition.
NextDocument ==
    /\ phase = "ingest"
    /\ cur_doc < MaxDoc
    /\ cur_doc' = cur_doc + 1
    /\ indexing_position' = [f \in Fields |-> IndexingPositionDefault]
    /\ history' = [f \in Fields |->
            [history[f] EXCEPT !.positions = {}, !.prev_end = None]]
    /\ last_call' = NoCall
    /\ UNCHANGED <<schema, writers, term_buffer, fast_field, phase, sink_log,
                   result>>


\* the orders in which the term maps of the fields may iterate
Perms(n) == { p \in [1..n -> 1..n] : \A i, j \in 1..n : p[i] = p[j] => i = j }
IterOrders == { o \in [Fields -> UNION { Perms(Len(writers[f].term_map)) : f \in Fields }] :
                  \A f \in Fields : o[f] \in Perms(Len(writers[f].term_map)) }

\* the most operations one serialize_postings call performs
MaxSinkOps == 3 * Len(schema) + 3 * (Len(writers[1].term_map) + Len(writers[2].term_map))

\* the document id mappings of a sorted segment: none, or the reversal
DocIdMaps == { None, Some([d \in 0..MaxDoc |-> MaxDoc - d]) }

\* All documents are in: the segment writer serializes the postings. The
\* operation numbered fail_at fails (none when fail_at is 0).
SerializePostings(doc_id_map, orders, fail_at) ==
    /\ phase = "ingest"
    /\ LET r == serialize_postings(writers, doc_id_map, schema, orders, fail_at)
       IN /\ sink_log' = r.log
          /\ result' = r.result
    /\ phase' = "flushed"
    /\ last_call' = NoCall
    /\ UNCHANGED <<schema, writers, cur_doc, indexing_position, term_buffer,
                   fast_field, history>>

----------------------------------------------------------------------------
(* Specifications *)

\* The whole build: the values of the documents are subscribed, then the
\* postings are serialized to a sink any operation of which may fail.
Init == InitWith(Schemas)

Next ==
    \/ \E f \in Fields, text \in TokenTexts : Subscribe(f, text)
    \/ NextDocument
    \/ \E m \in DocIdMaps, o \in IterOrders, k \in 0..MaxSinkOps :
          SerializePostings(m, o, k)

Spec == Init /\ [][Next]_vars

\* Text indexing: the first field of the schema is tokenized; its values are
\* indexed from the token streams of the model (the numbers of a json object
\* directly), then the postings are serialized to a sink that does not fail.
TextSchemas == { sch \in Schemas : sch[1].field_type \in Tokenized }

InitText == InitWith(TextSchemas)

NextText ==
    \/ \E text \in TokenTexts : Subscribe(1, text)
    \/ \E ts \in TokenStreams : IndexText(1, ts)
    \/ NextDocument
    \/ \E o \in IterOrders : SerializePostings(None, o, 0)

SpecText == InitText /\ [][NextText]_vars

----------------------------------------------------------------------------
(* Properties *)

\* a is before b in byte-lexicographic order: a proper prefix of b, or
\* smaller at the first byte where they differ
ByteLexBefore(a, b) ==
    \/ Len(a) < Len(b) /\ SubSeq(b, 1, Len(a)) = a
    \/ \E i \in 1..Min(Len(a), Len(b)) :
          SubSeq(a, 1, i - 1) = SubSeq(b, 1, i - 1) /\ a[i] < b[i]

\* the operations of one kind the sink saw for field f, in order
SinkOps(op, f) == SelectSeq(sink_log, LAMBDA o : o.op = op /\ o.field = f)

\* the terms subscribe was called with for field f
KeysSeen(f) == { history[f].first_seen[i] : i \in 1..Len(history[f].first_seen) }

StringLike(f) == schema[f].field_type \in {"Str", "Facet"}

\* C1: the document frequency handed to new_term for a term equals the
\* number of distinct documents subscribe was called with for that term.
C1_DocFreqIsDistinctDocs ==
    \A i \in 1..Len(sink_log) :
        sink_log[i].op = "new_term" =>
            sink_log[i].value =
                Cardinality({ p \in history[sink_log[i].field].docs :
                                p[1] = sink_log[i].term })

\* C2: the terms handed to new_term for a field are terms of its map in
\* strictly ascending byte-lexicographic order, and after a successful
\* serialization every term of the map has been handed over exactly once.
C2_TermsAscendingOnce ==
    phase = "flushed" =>
        \A f \in Fields :
            LET ts == SinkOps("new_term", f)
            IN /\ \A i \in 1..(Len(ts) - 1) : ByteLexBefore(ts[i].term, ts[i + 1].term)
               /\ \A i \in 1..Len(ts) : ts[i].term \in KeysSeen(f)
               /\ result.status = "ok" => Len(ts) = Cardinality(KeysSeen(f))

\* three terms first seen in an order that is not the sorted one have been
\* serialized
C2_Witness ==
    /\ result.status = "ok"
    /\ \E f \in Fields :
          /\ Len(SinkOps("new_term", f)) = 3
          /\ ByteLexBefore(history[f].first_seen[2], history[f].first_seen[1])

\* the number of terms of field f that sort before key
Rank(f, key) == Cardinality({ k \in KeysSeen(f) : ByteLexBefore(k, key) })

\* C3: the mapping returned for a string-like field is a bijection from the
\* UnorderedTermIds 0..n-1 of the field onto 0..n-1 that sends the id of
\* each term to the rank of the term in sorted order.
C3_MappingIsRankBijection ==
    result.status = "ok" =>
        \A f \in Fields :
            StringLike(f) =>
                LET m == result.unordered_term_mappings[f]
                    n == Len(history[f].first_seen)
                IN /\ DOMAIN m = 0..(n - 1)
                   /\ { m[id] : id \in DOMAIN m } = 0..(n - 1)
                   /\ \A id \in DOMAIN m : m[id] = Rank(f, history[f].first_seen[id + 1])

\* dog(0), cat(1), ant(2): three terms first seen in descending order get
\* the mapping {0:2, 1:1, 2:0}
C3_Witness ==
    /\ result.status = "ok"
    /\ \E f \in Fields :
          /\ StringLike(f)
          /\ history[f].first_seen = << <<2>>, <<1, 2>>, <<1>> >>
          /\ result.unordered_term_mappings[f] = (0 :> 2) @@ (1 :> 1) @@ (2 :> 0)

\* the tokens of a stream that are not longer than MAX_TOKEN_LEN
Kept(token_stream) == SelectSeq(token_stream, LAMBDA t : Len(t.text) <= MAX_TOKEN_LEN)

KeysOf(term_map) == { term_map[i].key : i \in 1..Len(term_map) }

\* C4: right after an index_text call, the terms added to the map, the
\* subscribe calls made, the ids forwarded to the fast field writer and the
\* increase of total_num_tokens and of indexing_position.num_tokens are those
\* of the tokens not longer than MAX_TOKEN_LEN; a token longer than that
\* leaves no trace, a token exactly that long is recorded.
C4_OversizedTokensDropped ==
    last_call.kind = "index_text" =>
        LET f == last_call.field
            kept == Kept(last_call.token_stream)
        IN /\ Len(last_call.calls) = Len(kept)
           /\ \A i \in 1..Len(kept) :
                 last_call.calls[i].key = last_call.buffer_before \o kept[i].text
           /\ KeysOf(writers[f].term_map) =
                 KeysOf(last_call.term_map_before)
                    \cup { last_call.buffer_before \o kept[i].text : i \in 1..Len(kept) }
           /\ fast_field[f] =
                 IF schema[f].fast
                 THEN last_call.fast_field_before
                         \o [i \in 1..Len(kept) |-> last_call.calls[i].id]
                 ELSE last_call.fast_field_before
           /\ writers[f].total_num_tokens = last_call.total_before + Len(kept)
           /\ indexing_position[f].num_tokens = last_call.entry.num_tokens + Len(kept)

\* a token of exactly MAX_TOKEN_LEN bytes followed by a longer one: only the
\* first is recorded
C4_Witness ==
    /\ last_call.kind = "index_text"
    /\ last_call.token_stream = <<Tok(<<1, 2>>, 0, 2), Tok(<<1, 1, 1>>, 1, 1)>>
    /\ writers[last_call.field].total_num_tokens = last_call.total_before + 1
    /\ Len(last_call.dropped) = 1

\* C5 as stated: every position recorded by a second index_text call on the
\* same IndexingPosition is strictly greater than the end position of the
\* first call + 1 (here for a first call that recorded a token).
C5_SecondCallBeyondEndPlusOne ==
    (/\ last_call.kind = "index_text"
     /\ last_call.prev_end # None
     /\ last_call.prev_end # Some(0)) =>
        \A i \in 1..Len(last_call.calls) :
            last_call.calls[i].position > last_call.prev_end[1] + 1

\* C5 amended: every position recorded by a second index_text call on the
\* same IndexingPosition is at least the end position of the first call + 1.
C5_SecondCallFromEndPlusOne ==
    (last_call.kind = "index_text" /\ last_call.prev_end # None) =>
        \A i \in 1..Len(last_call.calls) :
            last_call.calls[i].position >= last_call.prev_end[1] + 1

\* a second call records its first token right at the end position of the
\* first call + 1
C5_Witness ==
    /\ last_call.kind = "index_text"
    /\ last_call.prev_end # None
    /\ last_call.prev_end[1] > 0
    /\ Len(last_call.calls) > 0
    /\ last_call.calls[1].position = last_call.prev_end[1] + 1

\* C6: the total_num_tokens of a writer equals the number of subscribe calls
\* made on it, and it is the value the sink of the field is opened with.
C6_TotalNumTokensIsSubscribeCount ==
    /\ \A f \in Fields : writers[f].total_num_tokens = history[f].count
    /\ \A i \in 1..Len(sink_log) :
          sink_log[i].op = "new_field" =>
              sink_log[i].value = history[sink_log[i].field].count

\* a sink has been opened with 3 tokens for a field with fewer terms
C6_Witness ==
    \E i \in 1..Len(sink_log) :
        /\ sink_log[i].op = "new_field"
        /\ sink_log[i].value = 3
        /\ Len(history[sink_log[i].field].first_seen) < 3

Flushed(f) ==
    /\ Len(SinkOps("new_field", f)) = 1
    /\ Len(SinkOps("new_term", f)) = Cardinality(KeysSeen(f))
    /\ Len(SinkOps("close_term", f)) = Cardinality(KeysSeen(f))
    /\ Len(SinkOps("close", f)) = 1

C8_IdsDenseInFirstSeenOrder ==
    \A f \in Fields :
        history[f].ids =
            { <<history[f].first_seen[i], i - 1>> : i \in 1..Len(history[f].first_seen) }

\* a key has been subscribed again after another key was first seen
C8_Witness ==
    \E f \in Fields :
        /\ Len(history[f].first_seen) = 2
        /\ history[f].count = 3

\* C9: the map returned by a successful serialize_postings has an entry for
\* exactly the Str and Facet fields, and the terms of every field, whatever
\* its type, have been handed to the sink.
C9_MappingsForStringLikeFields ==
    result.status = "ok" =>
        /\ DOMAIN result.unordered_term_mappings = { f \in Fields : StringLike(f) }
        /\ \A f \in Fields : Flushed(f)

\* a text field without terms has an (empty) mapping and a numeric field
\* with two terms has none
C9_Witness ==
    /\ result.status = "ok"
    /\ schema[1].field_type = "Str"
    /\ schema[2].field_type = "U64"
    /\ KeysSeen(1) = {}
    /\ Cardinality(KeysSeen(2)) = 2
    /\ DOMAIN result.unordered_term_mappings = {1}
    /\ DOMAIN result.unordered_term_mappings[1] = {}

\* C10: over the index_text calls on one IndexingPosition, end_position
\* never decreases and every position a call records is strictly greater
\* than every position recorded by the calls before it.
C10_MonotonicPositionSpace ==
    last_call.kind = "index_text" =>
        /\ indexing_position[last_call.field].end_position >= last_call.entry.end_position
        /\ \A i \in 1..Len(last_call.calls) :
              \A p \in last_call.earlier_positions : last_call.calls[i].position > p

\* C11: every token an index_text call records is subscribed at the
\* end_position the IndexingPosition had at entry + the start offset of the
\* token; after a call that recorded a token, end_position is the start
\* position + span length of the last recorded token, + 1; so the first
\* token of a value that follows a value whose last token ended at e is
\* recorded at e + 1 + its offset.
C11_PositionsFromEntryEndPosition ==
    last_call.kind = "index_text" =>
        LET f == last_call.field
            kept == Kept(last_call.token_stream)
            n == Len(last_call.calls)
        IN /\ n = Len(kept)
           /\ \A i \in 1..n :
                 last_call.calls[i].position
                    = last_call.entry.end_position + kept[i].position
           /\ n > 0 =>
                 indexing_position[f].end_position
                    = (last_call.calls[n].position + kept[n].position_length) + 1
           /\ (n > 0 /\ last_call.prev_end # None /\ last_call.prev_end[1] > 0) =>
                 last_call.calls[1].position
                    = last_call.prev_end[1] + 1 + kept[1].position

\* the last token of the first value ended at position 2 and the first
\* token of the second value, at offset 0, is recorded at position 3
C11_Witness ==
    /\ last_call.kind = "index_text"
    /\ last_call.prev_end = Some(2)
    /\ Len(last_call.calls) > 0
    /\ Kept(last_call.token_stream)[1].position = 0
    /\ last_call.calls[1].position = 3
    /\ indexing_position[last_call.field].end_position > 3

\* the operations the sink saw for field f, of every kind, in order
FieldOps(f) == SelectSeq(sink_log, LAMBDA o : o.field = f)

\* C12: after a successful serialize_postings the operations of the fields
\* follow each other in the declared order of the fields, those of one
\* field all before those of the next; every field, with terms or without,
\* has its fieldnorm reader fetched and its sink opened once, then for each
\* of its terms new_term, the postings of that term, close_term, and then
\* its sink is closed once, after the last close_term.
C12_SinkProtocol ==
    result.status = "ok" =>
        /\ \A i \in 1..(Len(sink_log) - 1) : sink_log[i].field <= sink_log[i + 1].field
        /\ \A f \in 1..Len(schema) :
              LET ops == FieldOps(f)
                  n == Cardinality(KeysSeen(f))
              IN /\ Len(ops) = 3 + 3 * n
                 /\ ops[1].op = "get_field"
                 /\ ops[2].op = "new_field"
                 /\ \A t \in 1..n :
                       /\ ops[3 * t].op = "new_term"
                       /\ ops[3 * t + 1].op = "write_postings"
                       /\ ops[3 * t + 1].term = ops[3 * t].term
                       /\ ops[3 * t + 2].op = "close_term"
                 /\ ops[Len(ops)].op = "close"

\* a field without terms, then a field with two terms, have been serialized
C12_Witness ==
    /\ result.status = "ok"
    /\ KeysSeen(1) = {}
    /\ Cardinality(KeysSeen(2)) = 2
    /\ Len(FieldOps(1)) = 3
    /\ Len(FieldOps(2)) = 9
    /\ sink_log[3].op = "close"
    /\ sink_log[4].field = 2

\* the documents subscribe was called with for term key of field f
DocsOf(f, key) == { p[2] : p \in { q \in history[f].docs : q[1] = key } }

\* the last of them: documents do not decrease, so it is the greatest
LastDoc(f, key) == CHOOSE d \in DocsOf(f, key) : \A e \in DocsOf(f, key) : e <= d

\* C13: no recorder of any term map has had new_doc called while a document
\* was Open, nor close_doc or record_position called while none was; and
\* the recorder of every term is Open on the document of the last subscribe
\* call for that term.
C13_RecorderPreconditionsRespected ==
    \A f \in Fields :
        \A i \in 1..Len(writers[f].term_map) :
            LET bucket == writers[f].term_map[i]
            IN /\ ~bucket.recorder.misuse
               /\ bucket.recorder.state = "Open"
               /\ current_doc(bucket.recorder) = LastDoc(f, bucket.key)

\* a term of document 0 has been subscribed again in document 1: its
\* recorder went Open(0), Closed, Open(1); another term stayed in document 0
C13_Witness ==
    \E f \in Fields :
        /\ Len(writers[f].term_map) = 2
        /\ writers[f].term_map[1].recorder.state = "Open"
        /\ writers[f].term_map[1].recorder.doc = 1
        /\ Len(writers[f].term_map[1].recorder.finalized) = 1
        /\ writers[f].term_map[2].recorder.doc = 0

\* the doc ids of the finalized entries of a recorder, in order
FinalizedDocs(r) == [i \in 1..Len(r.finalized) |-> r.finalized[i][1]]

\* C14: for every term, the documents new_doc was called with are strictly
\* increasing and are exactly the documents subscribe was called with for
\* the term, each once; close_doc has been called once for each of them but
\* the last, so the finalized entries are in strictly increasing doc id
\* order without a repeated doc id.
C14_DocCursorMovesForward ==
    \A f \in Fields :
        \A i \in 1..Len(writers[f].term_map) :
            LET bucket == writers[f].term_map[i]
                opened == bucket.recorder.opened
                docs == FinalizedDocs(bucket.recorder)
            IN /\ \A j \in 1..(Len(opened) - 1) : opened[j] < opened[j + 1]
               /\ { opened[j] : j \in 1..Len(opened) } = DocsOf(f, bucket.key)
               /\ docs = SubSeq(opened, 1, Len(opened) - 1)
               /\ \A j \in 1..(Len(docs) - 1) : docs[j] < docs[j + 1]

\* one term subscribed twice in document 0 and once in document 1: two
\* new_doc calls and one finalized entry for three subscribe calls
C14_Witness ==
    \E f \in Fields :
        /\ history[f].count = 3
        /\ Len(writers[f].term_map) = 1
        /\ writers[f].term_map[1].recorder.opened = <<0, 1>>
        /\ FinalizedDocs(writers[f].term_map[1].recorder) = <<0>>

\* C15: an index_text call given a fast field writer appends to it one id
\* per recorded token, in token order, the id of the bucket of the token's
\* term, and nothing when it is given none; and after a successful
\* serialize_postings every id appended for a Str or Facet field is a key
\* of the mapping returned for the field, mapped to the rank of the term of
\* that token among the sorted terms of the field.
C15_TermIdSink ==
    /\ last_call.kind = "index_text" =>
          LET f == last_call.field
              kept == Kept(last_call.token_stream)
              appended == SubSeq(fast_field[f], Len(last_call.fast_field_before) + 1,
                                 Len(fast_field[f]))
          IN /\ SubSeq(fast_field[f], 1, Len(last_call.fast_field_before))
                    = last_call.fast_field_before
             /\ Len(appended) = IF schema[f].fast THEN Len(kept) ELSE 0
             /\ \A i \in 1..Len(appended) :
                   /\ appended[i] + 1 \in 1..Len(writers[f].term_map)
                   /\ writers[f].term_map[appended[i] + 1].key
                         = last_call.buffer_before \o kept[i].text
    /\ \A f \in Fields :
          /\ Len(fast_field[f]) = Len(history[f].sunk)
          /\ (result.status = "ok" /\ StringLike(f)) =>
                \A i \in 1..Len(fast_field[f]) :
                    /\ fast_field[f][i] \in DOMAIN result.unordered_term_mappings[f]
                    /\ result.unordered_term_mappings[f][fast_field[f][i]]
                          = Rank(f, history[f].sunk[i])

\* the tokens 2, 1, 2 of a text field got the ids 0, 1, 0 and the
\* mapping returned sends them to the ranks 1, 0, 1
C15_Witness ==
    /\ result.status = "ok"
    /\ schema[1].field_type = "Str"
    /\ fast_field[1] = <<0, 1, 0>>
    /\ history[1].sunk = << <<2>>, <<1>>, <<2>> >>
    /\ result.unordered_term_mappings[1] = (0 :> 1) @@ (1 :> 0)

\* C16: an index_text call that dropped a token has subscribed every token
\* within the length limit, those after the dropped one included, for the
\* document of the call and at the end_position at entry + the offset of
\* the token: the subscribe calls made, the writer and the IndexingPosition
\* after the call are those of a call on the stream without the tokens
\* that are too long.
C16_LaterTokensUnaffectedByDrop ==
    (last_call.kind = "index_text" /\ last_call.dropped # <<>>) =>
        LET f == last_call.field
            kept == Kept(last_call.token_stream)
            r == index_text([total_num_tokens |-> last_call.total_before,
                             term_map |-> last_call.term_map_before],
                            schema[f].recorder, last_call.doc, kept,
                            last_call.buffer_before, last_call.entry,
                            IF schema[f].fast THEN Some(last_call.fast_field_before)
                            ELSE None)
        IN /\ Len(last_call.calls) = Len(kept)
           /\ \A i \in 1..Len(kept) :
                 /\ last_call.calls[i].doc = last_call.doc
                 /\ last_call.calls[i].position
                       = last_call.entry.end_position + kept[i].position
                 /\ last_call.calls[i].key = last_call.buffer_before \o kept[i].text
           /\ r.dropped = <<>>
           /\ r.calls = last_call.calls
           /\ r.writer = writers[f]
           /\ r.indexing_position = indexing_position[f]

\* a second value starts with a token that is too long, and the token after
\* it has been subscribed at the end_position at entry + its offset
C16_Witness ==
    /\ last_call.kind = "index_text"
    /\ last_call.token_stream = <<Tok(<<1, 1, 1>>, 1, 1), Tok(<<1>>, 1, 1)>>
    /\ last_call.entry.end_position > 0
    /\ Len(last_call.dropped) = 1
    /\ Len(last_call.calls) = 1
    /\ last_call.calls[1].position = last_call.entry.end_position + 1

\* C17: every index_text call adds to indexing_position.num_tokens the
\* number of tokens it recorded, dropped tokens not counted; the
\* total_num_tokens of a writer is the sum of these increments over all
\* index_text calls + the number of subscribe calls made directly, so the
\* two are equal for a writer that is only fed through index_text.
C17_NumTokensIncrementsSumToTotal ==
    /\ last_call.kind = "index_text" =>
          /\ indexing_position[last_call.field].num_tokens
                - last_call.entry.num_tokens = Len(last_call.calls)
          /\ Len(last_call.calls) = Len(Kept(last_call.token_stream))
    /\ \A f \in Fields :
          /\ writers[f].total_num_tokens = history[f].added + history[f].direct
          /\ history[f].direct = 0 => history[f].added = writers[f].total_num_tokens

\* two tokens in document 0, then in document 1 a value with a token that
\* is dropped and one that is recorded: num_tokens of the fresh
\* IndexingPosition is 1 and the increments sum to total_num_tokens = 3
C17_Witness ==
    /\ last_call.kind = "index_text"
    /\ cur_doc = 1
    /\ Len(last_call.dropped) = 1
    /\ indexing_position[1].num_tokens = 1
    /\ history[1].direct = 0
    /\ history[1].added = 3
    /\ writers[1].total_num_tokens = 3

\* C18: when index_text returns, the term buffer of the caller holds the
\* bytes it held at entry, whatever tokens were recorded or dropped, and
\* the key of every token the call recorded is these bytes followed by the
\* text of the token.
C18_TermBufferRestored ==
    last_call.kind = "index_text" =>
        LET kept == Kept(last_call.token_stream)
        IN /\ term_buffer[last_call.field] = last_call.buffer_before
           /\ last_call.buffer_before = PathPrefix(schema[last_call.field].field_type)
           /\ \A i \in 1..Len(last_call.calls) :
                 last_call.calls[i].key = last_call.buffer_before \o kept[i].text

\* a second value of a json field, with the path <<3>> in the buffer, has
\* recorded one token and dropped one; the buffer holds the path again
C18_Witness ==
    /\ last_call.kind = "index_text"
    /\ last_call.prev_end # None
    /\ last_call.prev_end # Some(0)
    /\ last_call.buffer_before = <<3>>
    /\ Len(last_call.calls) = 1
    /\ Len(last_call.dropped) = 1
    /\ last_call.calls[1].key = <<3, 1>>
    /\ term_buffer[last_call.field] = <<3>>

====
